---- MODULE Spec2Model ----
(***************************************************************************)
(* Model of the birpc peer engine (client.go) and of the server glue that  *)
(* builds a peer for an accepted connection.  Two peers, P (built with     *)
(* NewClient) and S (built by Server.ServeCodecWithState), are joined by   *)
(* one connection; each runs its read loop, its handler tasks and the      *)
(* operations Go, Call, Notify and Close of its user tasks.                *)
(***************************************************************************)
EXTENDS Naturals, Sequences, FiniteSets, TLC

(* ---------------------------------------------------------------- bounds *)
\* number of user tasks; each performs one Go, Call, Notify or Close
MaxOps == 2
\* capacity of the buffered done channel the user hands to Go
DoneCap == 1

(* ------------------------------------------------------- program constants *)
\* first sequence number of a peer; 0 means notification
FirstSeq == 1
\* capacity of the channel Call allocates
CallChanCap == 2

(* ----------------------------------------------------------- configuration *)
Peers == {"P", "S"}
Other(p) == IF p = "P" THEN "S" ELSE "P"

\* the user tasks (goroutines) of the two programs
TaskId(i) == ToString(i)
Tasks == {TaskId(i) : i \in 1..MaxOps}
\* the task of the h-th handleRequest of peer p, when its handler calls back
HandlerTask(p, h) == p \o ToString(h)
HandlerTasks == {HandlerTask(p, h) : p \in Peers, h \in 1..MaxOps}
AllTasks == Tasks \cup HandlerTasks

CancelMethod == "_goRPC_.Cancel"

\* the registry of a peer: NewClientWithCodec registers the cancel service and
\* the program registers "mult"; ServeCodecWithState replaces the map of the
\* accepted peer by the server's registry ("add", "set")
NewClientWithCodec_handlers == {CancelMethod}
Server_handlers == {"add", "set"}
Handlers(p) ==
    IF p = "P" THEN NewClientWithCodec_handlers \cup {"mult"} ELSE Server_handlers

(* ------------------------------------------------------------------ errors *)
Nil == ""
ErrShutdown == "connection is shut down"
Canceled == "context canceled"
EOF == "EOF"
ErrUnexpectedEOF == "unexpected EOF"
ErrWrite == "write on closed connection"
ErrDecode == "gob: type mismatch"
NotReturned == "(not returned)"
\* ServerError is a string type whose Error() is the string itself
ServerError(e) == e
CantFind(m) == "birpc: can't find method " \o m

(* ------------------------------------------------------------------- state *)
VARIABLES
    seq,          \* c.seq, the next sequence number of each peer
    pending,      \* c.pending: seq -> index of the Call in calls
    closing,      \* c.closing
    shutdown,     \* c.shutdown
    sending,      \* c.sending: its holder, or "free"
    mutex,        \* c.mutex: its holder, or "free"
    request,      \* c.request, the header buffer shared by all senders
    blocking,     \* c.blocking
    disconnect,   \* number of times c.disconnect was closed
    calls,        \* the Call records allocated by Go on each peer
    userChan,     \* the buffered done channel the user hands to Go
    task,         \* position and locals of each user task
    reader,       \* position and locals of each peer's readLoop
    hand,         \* the handleRequest invocations of each peer
    inbound,      \* svc.Pending: seqs with a registered cancel token
    wire,         \* frames written by the other peer and not yet read
    undrained,    \* the body of the last header read is still on the stream
    codecKind,    \* "gob" (header and body are two records) or "json"
    codecCloses,  \* calls of codec.Close: by Close, the read loop, the server
    written,      \* history: every frame a peer passed to its codec
    assigned,     \* history: the (seq, Call) pairs send registered, in order
    removed,      \* history: the seqs deleted from c.pending
    closeWins,    \* history: number of Close calls that set closing
    program       \* which of the programs below the two ends run

vars == <<seq, pending, closing, shutdown, sending, mutex, request, blocking,
          disconnect, calls, userChan, task, reader, hand, inbound, wire,
          undrained, codecKind, codecCloses, written, assigned, removed,
          closeWins, program>>

engineVars == <<seq, pending, closing, shutdown, request, disconnect>>
histVars == <<written, assigned, removed, closeWins>>
codecVars == <<wire, undrained, codecCloses>>

(* ---------------------------------------------------------------- programs *)
\* The programs run over the connection:
\*   "calls"    P calls and notifies S, either end may be closed; the
\*              handlers answer at once
\*   "callback" P calls "add" of S, whose handler calls "mult" of P on the
\*              peer it finds in its context (TestTCPGOB)
\*   "cancel"   S calls "mult" of P under a context it may cancel; the
\*              handler may notice the cancellation and return its error
\*   "go"       a task of P issues two Go calls, one after the other, while
\*              another one issues a Go or a Notify or closes P
Programs == {"calls", "callback", "cancel", "go"}

\* method names the user tasks of a peer call and notify
CallMethods(p) ==
    IF program = "calls" THEN (IF p = "P" THEN {"add", "foo"} ELSE {})
    ELSE IF program \in {"callback", "go"} THEN (IF p = "P" THEN {"add"} ELSE {})
    ELSE (IF p = "S" THEN {"mult"} ELSE {})
NotifyMethods(p) ==
    IF program = "calls" /\ p = "P" THEN {"set", "foo"}
    ELSE IF program = "go" /\ p = "P" THEN {"set"}
    ELSE {}
\* the handlers that call back to the peer of their context
CallsBack(m) == program = "callback" /\ m = "add"

(* ---------------------------------------------------------------- records *)
\* type Call struct; from, strobes, delivered and ret are history fields:
\* the seq of the response that completed the call, the number of done()
\* calls, the number of them that entered the channel, and what Call returned
NewCall(m, a, ch) ==
    [Method |-> m, Args |-> a, Reply |-> 0, Error |-> Nil, Done |-> ch,
     seq |-> 0, chan |-> <<>>, from |-> 0, strobes |-> 0, delivered |-> 0,
     ret |-> NotReturned]

ReqFrame(s, m, body) ==
    [kind |-> "req", Seq |-> s, Method |-> m, Error |-> "", body |-> body]
RespFrame(s, e, body) ==
    [kind |-> "resp", Seq |-> s, Method |-> "", Error |-> e, body |-> body]

NoReq == [Seq |-> 0, Method |-> ""]
NoResp == [Seq |-> 0, Error |-> ""]

IdleTask ==
    [pc |-> "idle", op |-> "", peer |-> "P", method |-> "", call |-> 0, cur |-> 0,
     seq |-> 0, ctx |-> FALSE, ret |-> NotReturned]
InitReader ==
    [pc |-> "ReadHeader", req |-> NoReq, resp |-> NoResp, body |-> 0,
     err |-> Nil, call |-> 0, closing |-> FALSE, eof |-> FALSE, todo |-> {}]
\* a handleRequest invocation; client is the peer its context carries, ctx
\* whether that context is cancelled, call the Call its handler has issued
DoneHandler == [pc |-> "done", Seq |-> 0, Method |-> "", argv |-> 0, reply |-> 0,
                err |-> Nil, inline |-> FALSE, client |-> "", ctx |-> FALSE,
                call |-> 0]

\* the handler functions the programs register ("add" and "mult" of the tests)
HandlerReply(m, a) ==
    IF m = "add" THEN a + a ELSE IF m = "mult" THEN a * a ELSE 0

(* ------------------------------------------------------------------- tasks *)
\* the peer whose method task t has invoked
PeerOf(t) == task[t].peer
\* task t after its operation has returned r
Return(t, r) ==
    [IdleTask EXCEPT !.pc = "returned", !.op = task[t].op, !.peer = task[t].peer,
                     !.ret = r]
\* the tasks are interchangeable: the one that starts first is named 1, the
\* next one 2, and so on
CanStart(t) ==
    /\ task[t].pc = "idle"
    /\ \E i \in 1..MaxOps :
          /\ t = TaskId(i)
          /\ IF i = 1 THEN TRUE ELSE task[TaskId(i - 1)].pc # "idle"
Start(p, op, m, i) ==
    [IdleTask EXCEPT !.op = op, !.peer = p, !.method = m, !.call = i, !.cur = i]

(* ------------------------------------------------------------------- codec *)
CodecClosed(p) ==
    codecCloses[p].byClose + codecCloses[p].byLoop + codecCloses[p].byServer > 0

\* a write fails on a closed codec, may fail once the remote end is closed,
\* and otherwise succeeds
WriteMayFail(p) == CodecClosed(p) \/ CodecClosed(Other(p))
WriteMaySucceed(p) == ~CodecClosed(p)

\* the frame reaches the remote's stream unless the remote end is closed
Deliver(p, f) ==
    IF CodecClosed(Other(p)) THEN wire
    ELSE [wire EXCEPT ![Other(p)] = Append(@, f)]

(* ----------------------------------------------------------------- Call.done *)
ChanOf(p, i) == IF calls[p][i].Done = 0 THEN userChan[p] ELSE calls[p][calls[p][i].Done].chan
CapOf(p, i) == IF calls[p][i].Done = 0 THEN DoneCap ELSE CallChanCap
HasRoom(p, i) == Len(ChanOf(p, i)) < CapOf(p, i)

\* call.Error = e (when set is TRUE) followed by call.done()
doneCalls(p, i, set, e) ==
    LET c == calls[p][i]
        room == HasRoom(p, i)
        c1 == [c EXCEPT !.Error = IF set THEN e ELSE @,
                        !.strobes = @ + 1,
                        !.delivered = IF room THEN @ + 1 ELSE @]
        cs1 == [calls[p] EXCEPT ![i] = c1]
    IN  [calls EXCEPT ![p] =
            IF room /\ c.Done # 0
            THEN [cs1 EXCEPT ![c.Done].chan = Append(@, i)]
            ELSE cs1]
doneUserChan(p, i) ==
    IF HasRoom(p, i) /\ calls[p][i].Done = 0
    THEN [userChan EXCEPT ![p] = Append(@, i)]
    ELSE userChan

(* -------------------------------------------------------------------- Init *)
\* the state NewClientWithCodec leaves a peer in, before Run
InitEngine ==
    /\ seq = [p \in Peers |-> FirstSeq]
    /\ pending = [p \in Peers |-> <<>>]
    /\ closing = [p \in Peers |-> FALSE]
    /\ shutdown = [p \in Peers |-> FALSE]
    /\ sending = [p \in Peers |-> "free"]
    /\ mutex = [p \in Peers |-> "free"]
    /\ request = [p \in Peers |-> NoReq]
    /\ disconnect = [p \in Peers |-> 0]
    /\ calls = [p \in Peers |-> <<>>]
    /\ userChan = [p \in Peers |-> <<>>]
    /\ task = [t \in AllTasks |-> IdleTask]
    /\ reader = [p \in Peers |-> InitReader]
    /\ hand = [p \in Peers |-> <<>>]
    /\ inbound = [p \in Peers |-> {}]
    /\ wire = [p \in Peers |-> <<>>]
    /\ undrained = [p \in Peers |-> FALSE]
    /\ codecCloses = [p \in Peers |-> [byClose |-> 0, byLoop |-> 0, byServer |-> 0]]
    /\ written = [p \in Peers |-> {}]
    /\ assigned = [p \in Peers |-> <<>>]
    /\ removed = [p \in Peers |-> {}]
    /\ closeWins = [p \in Peers |-> 0]

Init ==
    /\ InitEngine
    /\ blocking \in {[p \in Peers |-> IF p = "S" THEN b ELSE FALSE] : b \in BOOLEAN}
    /\ codecKind \in {"gob", "json"}
    /\ program = "calls"

\* the server end calls the client end, which is in either mode; the codec
\* is the one NewClient and ServeConn choose
InitCancel ==
    /\ InitEngine
    /\ blocking \in {[p \in Peers |-> IF p = "P" THEN b ELSE FALSE] : b \in BOOLEAN}
    /\ codecKind = "gob"
    /\ program = "cancel"

\* two Go calls in a row: default mode, the codec of NewClient and ServeConn
InitGo ==
    /\ InitEngine
    /\ blocking = [p \in Peers |-> FALSE]
    /\ codecKind = "gob"
    /\ program = "go"

\* TestTCPGOB: either end in either mode (SetBlocking), either codec
InitCallback ==
    /\ InitEngine
    /\ blocking \in [Peers -> BOOLEAN]
    /\ codecKind \in {"gob", "json"}
    /\ program = "callback"

(* ------------------------------------------------------------ table helpers *)
Lookup(p, s) == IF s \in DOMAIN pending[p] THEN pending[p][s] ELSE 0
Delete(p, s) == [x \in DOMAIN pending[p] \ {s} |-> pending[p][x]]
Removed(p, s) == IF s \in DOMAIN pending[p] THEN removed[p] \cup {s} ELSE removed[p]

(* ------------------------------------------------------------------ Go, Call *)
\* Go with the user's buffered done channel: allocates the Call, then send
Go(t, p, m) ==
    LET i == Len(calls[p]) + 1
    IN  /\ CanStart(t)
        /\ m \in CallMethods(p)
        /\ calls' = [calls EXCEPT ![p] = Append(@, NewCall(m, i, 0))]
        /\ task' = [task EXCEPT ![t] = [Start(p, "Go", m, i) EXCEPT !.pc = "send_Lock"]]
        /\ UNCHANGED <<engineVars, sending, mutex, blocking, userChan, reader, hand,
                       inbound, codecVars, codecKind, program, histVars>>

\* Call: ch := make(chan *Call, 2); call := client.Go(..., ch)
Call(t, p, m) ==
    LET i == Len(calls[p]) + 1
    IN  /\ CanStart(t)
        /\ m \in CallMethods(p)
        /\ calls' = [calls EXCEPT ![p] = Append(@, NewCall(m, i, i))]
        /\ task' = [task EXCEPT ![t] = [Start(p, "Call", m, i) EXCEPT !.pc = "send_Lock"]]
        /\ UNCHANGED <<engineVars, sending, mutex, blocking, userChan, reader, hand,
                       inbound, codecVars, codecKind, program, histVars>>

\* a task that issues two Go calls in a row: the first one
GoTwice(t, p, m) ==
    LET i == Len(calls[p]) + 1
    IN  /\ CanStart(t)
        /\ program = "go"
        /\ m \in CallMethods(p)
        /\ calls' = [calls EXCEPT ![p] = Append(@, NewCall(m, i, 0))]
        /\ task' = [task EXCEPT ![t] = [Start(p, "GoTwice", m, i) EXCEPT !.pc = "send_Lock"]]
        /\ UNCHANGED <<engineVars, sending, mutex, blocking, userChan, reader, hand,
                       inbound, codecVars, codecKind, program, histVars>>

\* ... and, the first Go having returned, the second one
GoTwice_second(t) ==
    LET p == PeerOf(t)
        j == Len(calls[p]) + 1
    IN  /\ task[t].pc = "go_second"
        /\ calls' = [calls EXCEPT ![p] = Append(@, NewCall(task[t].method, j, 0))]
        /\ task' = [task EXCEPT ![t].cur = j, ![t].pc = "send_Lock"]
        /\ UNCHANGED <<engineVars, sending, mutex, blocking, userChan, reader, hand,
                       inbound, codecVars, codecKind, program, histVars>>

(* --------------------------------------------------------------------- send *)
\* where a task goes when send returns: Go returns the Call to the user, Call
\* goes to its select, and the Go of the cancel request is followed by
\* return ctx.Err()
AfterSend(t) ==
    LET tk == task[t]
    IN  IF tk.op = "Go" THEN Return(t, Nil)
        ELSE IF tk.op = "GoTwice"
        THEN (IF tk.cur = tk.call THEN [tk EXCEPT !.pc = "go_second"]
              ELSE Return(t, Nil))
        ELSE IF tk.cur = tk.call THEN [tk EXCEPT !.pc = "select"]
        ELSE Return(t, Canceled)
AfterSendCalls(cs, t) ==
    LET tk == task[t]
    IN  IF tk.op = "Call" /\ tk.cur # tk.call
        THEN [cs EXCEPT ![PeerOf(t)][tk.call].ret = Canceled]
        ELSE cs

send_Lock(t) ==
    LET p == PeerOf(t)
    IN  /\ task[t].pc = "send_Lock"
        /\ sending[p] = "free"
        /\ sending' = [sending EXCEPT ![p] = t]
        /\ task' = [task EXCEPT ![t].pc = "send_mutex"]
        /\ UNCHANGED <<engineVars, mutex, blocking, calls, userChan, reader, hand,
                       inbound, codecVars, codecKind, program, histVars>>

send_mutexLock(t) ==
    LET p == PeerOf(t)
    IN  /\ task[t].pc = "send_mutex"
        /\ mutex[p] = "free"
        /\ mutex' = [mutex EXCEPT ![p] = t]
        /\ task' = [task EXCEPT ![t].pc = "send_register"]
        /\ UNCHANGED <<engineVars, sending, blocking, calls, userChan, reader, hand,
                       inbound, codecVars, codecKind, program, histVars>>

\* send testing closing alone
sendRejects_closingOnly(p) == closing[p]
\* line 299: the flags send tests before it registers a call
sendRejects(p) == shutdown[p] \/ closing[p]

\* line 312: the sequence number send gives the call
sendSeq(p) == seq[p]
\* the counter left as it was
sendNextSeq_same(p) == seq[p]
\* line 313: c.seq++
sendNextSeq(p) == seq[p] + 1

\* the table after send registered call i under s
sendInsert(p, s, i) == pending[p] @@ (s :> i)

\* the table lock kept while the request is written
sendUnlock_forgotten(t) == t
\* line 316: c.mutex.Unlock() before the request is encoded and sent
sendUnlock(t) == "free"

\* lines 319-320: c.request.Seq = seq; c.request.Method = call.Method
sendHeader(p, s, i) == [Seq |-> s, Method |-> calls[p][i].Method]

\* lines 298-320: under the table lock, reject or register; then, the table
\* lock released, fill the shared header
send_register(t) ==
    LET p == PeerOf(t)
        i == task[t].cur
        s == sendSeq(p)
    IN  /\ task[t].pc = "send_register"
        /\ mutex[p] = t
        /\ mutex' = [mutex EXCEPT ![p] =
                        IF sendRejects(p) \/ calls[p][i].seq # 0 THEN "free"
                        ELSE sendUnlock(t)]
        /\ IF sendRejects(p)
           THEN /\ calls' = AfterSendCalls(doneCalls(p, i, TRUE, ErrShutdown), t)
                /\ userChan' = doneUserChan(p, i)
                /\ sending' = [sending EXCEPT ![p] = "free"]
                /\ task' = [task EXCEPT ![t] = AfterSend(t)]
                /\ UNCHANGED <<seq, pending, assigned, request>>
           ELSE IF calls[p][i].seq # 0
           THEN /\ calls' = AfterSendCalls(doneCalls(p, i, TRUE, Canceled), t)
                /\ userChan' = doneUserChan(p, i)
                /\ sending' = [sending EXCEPT ![p] = "free"]
                /\ task' = [task EXCEPT ![t] = AfterSend(t)]
                /\ UNCHANGED <<seq, pending, assigned, request>>
           ELSE /\ seq' = [seq EXCEPT ![p] = sendNextSeq(p)]
                /\ calls' = [calls EXCEPT ![p][i].seq = s]
                /\ pending' = [pending EXCEPT ![p] = sendInsert(p, s, i)]
                /\ assigned' = [assigned EXCEPT ![p] = Append(@, [seq |-> s, call |-> i])]
                /\ request' = [request EXCEPT ![p] = sendHeader(p, s, i)]
                /\ task' = [task EXCEPT ![t].pc = "send_write", ![t].seq = s]
                /\ UNCHANGED <<userChan, sending>>
        /\ UNCHANGED <<closing, shutdown, disconnect, blocking, reader, hand,
                       inbound, codecVars, codecKind, program, written, removed, closeWins>>

\* line 321: write the request whose header is the shared buffer
send_write(t) ==
    LET p == PeerOf(t)
        i == task[t].cur
        f == ReqFrame(request[p].Seq, request[p].Method, calls[p][i].Args)
    IN  /\ task[t].pc = "send_write"
        /\ \/ /\ WriteMaySucceed(p)
              /\ wire' = Deliver(p, f)
              /\ written' = [written EXCEPT ![p] = @ \cup {f}]
              /\ sending' = [sending EXCEPT ![p] = "free"]
              /\ task' = [task EXCEPT ![t] = AfterSend(t)]
              /\ calls' = AfterSendCalls(calls, t)
           \/ /\ WriteMayFail(p)
              /\ task' = [task EXCEPT ![t].pc = "send_failLock"]
              /\ UNCHANGED <<wire, written, sending, calls>>
        /\ UNCHANGED <<engineVars, mutex, blocking,
                       userChan, reader, hand, inbound, undrained, codecCloses,
                       codecKind, program, assigned, removed, closeWins>>

send_failLock(t) ==
    LET p == PeerOf(t)
    IN  /\ task[t].pc = "send_failLock"
        /\ mutex[p] = "free"
        /\ mutex' = [mutex EXCEPT ![p] = t]
        /\ task' = [task EXCEPT ![t].pc = "send_fail"]
        /\ UNCHANGED <<engineVars, sending, blocking, calls, userChan, reader, hand,
                       inbound, codecVars, codecKind, program, histVars>>

\* a failed write taken for the end of the connection: every entry dropped
sendFailDelete_all(p, s) == <<>>
\* line 325: delete(c.pending, seq)
sendFailDelete(p, s) == Delete(p, s)

\* lines 324-330: remove the entry and complete the call with the write error
send_fail(t) ==
    LET p == PeerOf(t)
        s == task[t].seq
        i == Lookup(p, s)
    IN  /\ task[t].pc = "send_fail"
        /\ mutex[p] = t
        /\ mutex' = [mutex EXCEPT ![p] = "free"]
        /\ pending' = [pending EXCEPT ![p] = sendFailDelete(p, s)]
        /\ removed' = [removed EXCEPT ![p] = Removed(p, s)]
        /\ IF i # 0
           THEN /\ calls' = AfterSendCalls(doneCalls(p, i, TRUE, ErrWrite), t)
                /\ userChan' = doneUserChan(p, i)
           ELSE /\ calls' = AfterSendCalls(calls, t)
                /\ UNCHANGED userChan
        /\ sending' = [sending EXCEPT ![p] = "free"]
        /\ task' = [task EXCEPT ![t] = AfterSend(t)]
        /\ UNCHANGED <<seq, closing, shutdown, request, disconnect, blocking, reader,
                       hand, inbound, codecVars, codecKind, program, written, assigned,
                       closeWins>>

(* ------------------------------------------------------------- Call's select *)
\* the caller's context is cancelled (it is consulted only by the select)
CtxCancel(t) ==
    /\ task[t].pc = "select"
    /\ ~task[t].ctx
    /\ task' = [task EXCEPT ![t].ctx = TRUE]
    /\ UNCHANGED <<engineVars, sending, mutex, blocking, calls, userChan, reader, hand,
                   inbound, codecVars, codecKind, program, histVars>>

\* case <-call.Done: return call.Error
Call_done(t) ==
    LET p == PeerOf(t)
        i == task[t].call
    IN  /\ task[t].pc = "select"
        /\ calls[p][i].chan # <<>>
        /\ calls' = [calls EXCEPT ![p][i].chan = Tail(@),
                                  ![p][i].ret = calls[p][i].Error]
        /\ task' = [task EXCEPT ![t] = Return(t, calls[p][i].Error)]
        /\ UNCHANGED <<engineVars, sending, mutex, blocking, userChan, reader, hand,
                       inbound, codecVars, codecKind, program, histVars>>

\* case <-ctx.Done(): client.mutex.Lock()
Call_ctxDone(t) ==
    LET p == PeerOf(t)
    IN  /\ task[t].pc = "select"
        /\ task[t].ctx
        /\ mutex[p] = "free"
        /\ mutex' = [mutex EXCEPT ![p] = t]
        /\ task' = [task EXCEPT ![t].pc = "cancel_remove"]
        /\ UNCHANGED <<engineVars, sending, blocking, calls, userChan, reader, hand,
                       inbound, codecVars, codecKind, program, histVars>>

\* the remote cancel issued for every call that has a seq
sendsRemoteCancel_sent(s, ok) == s # 0
\* line 393: whether Call issues the remote cancel
sendsRemoteCancel(s, ok) == s # 0 /\ ok

\* lines 383-396: unregister the call, then issue the remote cancel or return
Call_cancel(t) ==
    LET p == PeerOf(t)
        i == task[t].call
        s == calls[p][i].seq
        ok == s \in DOMAIN pending[p]
        j == Len(calls[p]) + 1
        cs == IF s = 0 THEN [calls EXCEPT ![p][i].seq = 1] ELSE calls
    IN  /\ task[t].pc = "cancel_remove"
        /\ mutex[p] = t
        /\ mutex' = [mutex EXCEPT ![p] = "free"]
        /\ pending' = [pending EXCEPT ![p] = Delete(p, s)]
        /\ removed' = [removed EXCEPT ![p] = Removed(p, s)]
        /\ IF sendsRemoteCancel(s, ok)
           THEN /\ calls' = [cs EXCEPT ![p] = Append(@, NewCall(CancelMethod, s, i))]
                /\ task' = [task EXCEPT ![t].pc = "send_Lock", ![t].cur = j,
                                        ![t].seq = s]
           ELSE /\ calls' = [cs EXCEPT ![p][i].ret = Canceled]
                /\ task' = [task EXCEPT ![t] = Return(t, Canceled)]
        /\ UNCHANGED <<seq, closing, shutdown, request, disconnect, sending, blocking,
                       userChan, reader, hand, inbound, codecVars, codecKind, program, written,
                       assigned, closeWins>>

(* ------------------------------------------------------------------- Notify *)
Notify(t, p, m) ==
        /\ CanStart(t)
        /\ m \in NotifyMethods(p)
        /\ task' = [task EXCEPT ![t] =
                [Start(p, "Notify", m, 0) EXCEPT !.pc = "notify_Lock"]]
        /\ UNCHANGED <<engineVars, sending, mutex, blocking, calls, userChan, reader,
                       hand, inbound, codecVars, codecKind, program, histVars>>

\* Notify going on without the send lock
Notify_Lock_unlocked(t) ==
    /\ task[t].pc = "notify_Lock"
    /\ task' = [task EXCEPT ![t].pc = "notify_check"]
    /\ UNCHANGED <<engineVars, sending, mutex, blocking, calls, userChan, reader,
                   hand, inbound, codecVars, codecKind, program, histVars>>

\* line 336: c.sending.Lock()
Notify_Lock(t) ==
    LET p == PeerOf(t)
    IN  /\ task[t].pc = "notify_Lock"
        /\ sending[p] = "free"
        /\ sending' = [sending EXCEPT ![p] = t]
        /\ task' = [task EXCEPT ![t].pc = "notify_check"]
        /\ UNCHANGED <<engineVars, mutex, blocking, calls, userChan, reader, hand,
                       inbound, codecVars, codecKind, program, histVars>>

\* Notify testing shutdown alone
NotifyRejects_shutdownOnly(p) == shutdown[p]
\* line 339: the flags Notify tests (read without the table lock)
NotifyRejects(p) == shutdown[p] \/ closing[p]

\* the sequence number Notify puts in the header
NotifySeq == 0
\* lines 343-344: c.request.Seq = 0; c.request.Method = method
NotifyHeader(m) == [Seq |-> NotifySeq, Method |-> m]

\* lines 339-344: reject, or fill the shared header
Notify_check(t) ==
    LET p == PeerOf(t)
    IN  /\ task[t].pc = "notify_check"
        /\ IF NotifyRejects(p)
           THEN /\ sending' = [sending EXCEPT ![p] = "free"]
                /\ task' = [task EXCEPT ![t] = Return(t, ErrShutdown)]
                /\ UNCHANGED request
           ELSE /\ request' = [request EXCEPT ![p] = NotifyHeader(task[t].method)]
                /\ task' = [task EXCEPT ![t].pc = "notify_write"]
                /\ UNCHANGED sending
        /\ UNCHANGED <<seq, pending, closing, shutdown, disconnect, mutex, blocking,
                       calls, userChan, reader, hand,
                       inbound, codecVars, codecKind, program, histVars>>

\* line 345: write the request whose header is the shared buffer
Notify_write(t) ==
    LET p == PeerOf(t)
        f == ReqFrame(request[p].Seq, request[p].Method, 6)
    IN  /\ task[t].pc = "notify_write"
        /\ sending' = [sending EXCEPT ![p] = "free"]
        /\ \/ /\ WriteMaySucceed(p)
              /\ wire' = Deliver(p, f)
              /\ written' = [written EXCEPT ![p] = @ \cup {f}]
              /\ task' = [task EXCEPT ![t] = Return(t, Nil)]
           \/ /\ WriteMayFail(p)
              /\ task' = [task EXCEPT ![t] = Return(t, ErrWrite)]
              /\ UNCHANGED <<wire, written>>
        /\ UNCHANGED <<engineVars, mutex, blocking,
                       calls, userChan, reader, hand, inbound, undrained, codecCloses,
                       codecKind, program, assigned, removed, closeWins>>

(* -------------------------------------------------------------------- Close *)
Close(t, p) ==
    /\ CanStart(t)
    /\ task' = [task EXCEPT ![t] = [Start(p, "Close", "", 0) EXCEPT !.pc = "close_Lock"]]
    /\ UNCHANGED <<engineVars, sending, mutex, blocking, calls, userChan, reader,
                   hand, inbound, codecVars, codecKind, program, histVars>>

Close_Lock(t) ==
    LET p == PeerOf(t)
    IN  /\ task[t].pc = "close_Lock"
        /\ mutex[p] = "free"
        /\ mutex' = [mutex EXCEPT ![p] = t]
        /\ task' = [task EXCEPT ![t].pc = "close_check"]
        /\ UNCHANGED <<engineVars, sending, blocking, calls, userChan, reader, hand,
                       inbound, codecVars, codecKind, program, histVars>>

\* Close testing shutdown alone
CloseRejects_shutdownOnly(p) == shutdown[p]
\* line 252: the flags Close tests before it sets closing
CloseRejects(p) == shutdown[p] \/ closing[p]

\* lines 252-257
Close_check(t) ==
    LET p == PeerOf(t)
    IN  /\ task[t].pc = "close_check"
        /\ mutex[p] = t
        /\ mutex' = [mutex EXCEPT ![p] = "free"]
        /\ IF CloseRejects(p)
           THEN /\ task' = [task EXCEPT ![t] = Return(t, ErrShutdown)]
                /\ UNCHANGED <<closing, closeWins>>
           ELSE /\ closing' = [closing EXCEPT ![p] = TRUE]
                /\ closeWins' = [closeWins EXCEPT ![p] = @ + 1]
                /\ task' = [task EXCEPT ![t].pc = "close_codec"]
        /\ UNCHANGED <<seq, pending, shutdown, request, disconnect, sending, blocking,
                       calls, userChan, reader, hand, inbound, codecVars, codecKind, program,
                       written, assigned, removed>>

\* line 258: return c.codec.Close()
Close_codec(t) ==
    LET p == PeerOf(t)
    IN  /\ task[t].pc = "close_codec"
        /\ codecCloses' = [codecCloses EXCEPT ![p].byClose = @ + 1]
        /\ task' = [task EXCEPT ![t] = Return(t, Nil)]
        /\ UNCHANGED <<engineVars, sending, mutex, blocking, calls, userChan, reader,
                       hand, inbound, wire, undrained, codecKind, program, histVars>>

(* ----------------------------------------------------------------- readLoop *)
\* leaving the loop with error e (eof: e is io.EOF)
ExitLoop(p, e) ==
    [reader[p] EXCEPT !.pc = "sweep_sending", !.err = e, !.eof = (e = EOF),
                      !.req = NoReq, !.resp = NoResp, !.body = 0, !.call = 0]
\* back to the top of the loop: req = Request{}; resp = Response{}
NextFrame(p) ==
    [reader[p] EXCEPT !.pc = "ReadHeader", !.req = NoReq, !.resp = NoResp,
                      !.body = 0, !.call = 0]

\* line 96: c.codec.ReadHeader(&req, &resp), and the branch of line 100.
\* A closed codec reads EOF; with the gob codec a body left on the stream is
\* decoded as the next header and fails; an open, drained stream yields its
\* next frame, or EOF once the remote end is closed.
readLoop_ReadHeader(p) ==
    /\ reader[p].pc = "ReadHeader"
    /\ IF CodecClosed(p)
       THEN /\ reader' = [reader EXCEPT ![p] = ExitLoop(p, EOF)]
            /\ UNCHANGED <<wire, undrained>>
       ELSE IF undrained[p] /\ codecKind = "gob"
       THEN /\ reader' = [reader EXCEPT ![p] = ExitLoop(p, ErrDecode)]
            /\ undrained' = [undrained EXCEPT ![p] = FALSE]
            /\ UNCHANGED wire
       ELSE IF wire[p] # <<>>
       THEN LET f == Head(wire[p])
            IN  /\ wire' = [wire EXCEPT ![p] = Tail(@)]
                /\ undrained' = [undrained EXCEPT ![p] = TRUE]
                /\ reader' = [reader EXCEPT ![p] =
                      [@ EXCEPT !.pc = IF f.Method # "" THEN "readRequest"
                                       ELSE "readResponse",
                                !.req = IF f.Method # ""
                                        THEN [Seq |-> f.Seq, Method |-> f.Method]
                                        ELSE NoReq,
                                !.resp = IF f.Method # "" THEN NoResp
                                         ELSE [Seq |-> f.Seq, Error |-> f.Error],
                                !.body = f.body]]
       ELSE /\ CodecClosed(Other(p))
            /\ reader' = [reader EXCEPT ![p] = ExitLoop(p, EOF)]
            /\ UNCHANGED <<wire, undrained>>
    /\ UNCHANGED <<engineVars, sending, mutex, blocking, calls, userChan, task, hand,
                   inbound, codecKind, program, codecCloses, histVars>>

(* -------------------------------------------------------------- readRequest *)
\* the response readRequest synthesizes for a method without a handler
unknownResponse(req) == RespFrame(req.Seq, CantFind(req.Method), 0)

\* lines 175-182: no handler: write the error response, the body is not read
readRequest_unknown(p) ==
    LET req == reader[p].req
        f == unknownResponse(req)
    IN  /\ reader[p].pc = "readRequest"
        /\ req.Method \notin Handlers(p)
        /\ \/ /\ WriteMaySucceed(p)
              /\ wire' = Deliver(p, f)
              /\ written' = [written EXCEPT ![p] = @ \cup {f}]
              /\ reader' = [reader EXCEPT ![p] = NextFrame(p)]
           \/ /\ WriteMayFail(p)
              /\ reader' = [reader EXCEPT ![p] = ExitLoop(p, ErrWrite)]
              /\ UNCHANGED <<wire, written>>
        /\ UNCHANGED <<engineVars, sending, mutex, blocking, calls, userChan, task,
                       hand, inbound, undrained, codecKind, program, codecCloses, assigned,
                       removed, closeWins>>

\* every handler given a task of its own
dispatchInline_never(p) == FALSE
\* line 200: whether handleRequest runs on the read loop
dispatchInline(p) == blocking[p]

\* lines 184-206: read the body, then run handleRequest inline (blocking mode)
\* or in a task of its own
readRequest_dispatch(p) ==
    LET req == reader[p].req
        h == [pc |-> "Start", Seq |-> req.Seq, Method |-> req.Method,
              argv |-> reader[p].body, reply |-> 0, err |-> Nil,
              inline |-> dispatchInline(p), client |-> "", ctx |-> FALSE,
              call |-> 0]
    IN  /\ reader[p].pc = "readRequest"
        /\ req.Method \in Handlers(p)
        /\ undrained' = [undrained EXCEPT ![p] = FALSE]
        /\ hand' = [hand EXCEPT ![p] = Append(@, h)]
        /\ reader' = [reader EXCEPT ![p] =
              IF dispatchInline(p) THEN [@ EXCEPT !.pc = "inline"] ELSE NextFrame(p)]
        /\ UNCHANGED <<engineVars, sending, mutex, blocking, calls, userChan, task,
                       inbound, wire, codecKind, program, codecCloses, histVars>>

(* ------------------------------------------------------------ handleRequest *)
\* line 147: pending.Start(req.Seq) registers the cancel token of the dispatch
PendingStart(p, s) == IF s = 0 THEN inbound[p] ELSE inbound[p] \cup {s}
\* line 148: the deferred pending.Cancel(req.Seq) removes it
PendingCancel(p, s) == inbound[p] \ {s}

\* the peer a handler finds in its context is wrongly the remote one
WithClient_remote(c) == Other(c)
\* line 147: WithClient(ctx, c) puts the engine itself in the context
WithClient(c) == c
\* the peer a handler gets from its context
ClientValueFromContext(r) == r.client

handleRequest_Start(p, h) ==
    /\ h \in DOMAIN hand[p]
    /\ hand[p][h].pc = "Start"
    /\ inbound' = [inbound EXCEPT ![p] = PendingStart(p, hand[p][h].Seq)]
    /\ hand' = [hand EXCEPT ![p][h].pc = "invoke", ![p][h].client = WithClient(p)]
    /\ UNCHANGED <<engineVars, sending, mutex, blocking, calls, userChan, task, reader,
                   codecVars, codecKind, program, histVars>>

\* no request answered
respondsTo_never(s) == FALSE
\* whether handleRequest answers the request (line 155)
respondsTo(s) == s # 0

\* what a handler returns: the handler of the program "cancel" watches its
\* context and returns ctx.Err() once it is cancelled; the others return nil
HandlerError(r) == IF program = "cancel" /\ r.ctx THEN Canceled ELSE Nil

\* lines 150-157: method.fn.Call, and the return for a notification
handleRequest_invoke(p, h) ==
    /\ h \in DOMAIN hand[p]
    /\ hand[p][h].pc = "invoke"
    /\ ~CallsBack(hand[p][h].Method)
    /\ hand[p][h].Method # CancelMethod
    /\ hand' = [hand EXCEPT ![p][h] =
          [hand[p][h] EXCEPT
              !.err = HandlerError(hand[p][h]),
              !.reply = IF HandlerError(hand[p][h]) = Nil
                        THEN HandlerReply(hand[p][h].Method, hand[p][h].argv)
                        ELSE 0,
              !.pc = IF respondsTo(hand[p][h].Seq) THEN "write" ELSE "end"]]
    /\ UNCHANGED <<engineVars, sending, mutex, blocking, calls, userChan, task, reader,
                   inbound, codecVars, codecKind, program, histVars>>

\* the handlers of p whose cancel token is in the inbound table under seq s
Registered(p, s) ==
    {k \in DOMAIN hand[p] :
        /\ hand[p][k].Seq = s /\ s \in inbound[p]
        /\ hand[p][k].pc \in {"invoke", "callback", "write", "end"}}

\* the handler of _goRPC_.Cancel{s}: pending.Cancel(s) trips the token
\* registered under s, if there is one, and removes it
Cancel_invoke(p, h) ==
    /\ h \in DOMAIN hand[p]
    /\ hand[p][h].pc = "invoke"
    /\ hand[p][h].Method = CancelMethod
    /\ LET s == hand[p][h].argv
       IN  /\ inbound' = [inbound EXCEPT ![p] = PendingCancel(p, s)]
           /\ hand' = [hand EXCEPT ![p] =
                 [k \in DOMAIN hand[p] |->
                    IF k = h
                    THEN [hand[p][k] EXCEPT
                            !.pc = IF respondsTo(hand[p][h].Seq) THEN "write" ELSE "end"]
                    ELSE IF k \in Registered(p, s)
                    THEN [hand[p][k] EXCEPT !.ctx = TRUE]
                    ELSE hand[p][k]]]
    /\ UNCHANGED <<engineVars, sending, mutex, blocking, calls, userChan, task, reader,
                   codecVars, codecKind, program, histVars>>

\* the handler "add" of TestTCPGOB: it sets its reply, then calls "mult" on the
\* peer of its context, client.Call(context.TODO(), "mult", ...)
add_Call(p, h) ==
    /\ h \in DOMAIN hand[p]
    /\ hand[p][h].pc = "invoke"
    /\ CallsBack(hand[p][h].Method)
    /\ LET c == ClientValueFromContext(hand[p][h])
           i == Len(calls[c]) + 1
           t == HandlerTask(p, h)
       IN  /\ t \in HandlerTasks
           /\ task[t].pc = "idle"
           /\ calls' = [calls EXCEPT ![c] = Append(@, NewCall("mult", i, i))]
           /\ task' = [task EXCEPT ![t] =
                   [Start(c, "Call", "mult", i) EXCEPT !.pc = "send_Lock"]]
           /\ hand' = [hand EXCEPT ![p][h] =
                   [hand[p][h] EXCEPT
                       !.pc = "callback",
                       !.call = i,
                       !.reply = HandlerReply(hand[p][h].Method, hand[p][h].argv)]]
    /\ UNCHANGED <<engineVars, sending, mutex, blocking, userChan, reader, inbound,
                   codecVars, codecKind, program, histVars>>

\* the nested call has returned: with no error and the product as its reply
\* the handler returns nil; otherwise t.Fatal ends the test and the handler
\* never returns
add_return(p, h) ==
    /\ h \in DOMAIN hand[p]
    /\ hand[p][h].pc = "callback"
    /\ LET t == HandlerTask(p, h)
           c == task[t].peer
           i == hand[p][h].call
       IN  /\ task[t].pc = "returned"
           /\ task[t].ret = Nil
           /\ calls[c][i].Reply = HandlerReply("mult", calls[c][i].Args)
    /\ hand' = [hand EXCEPT ![p][h].pc =
                   IF respondsTo(hand[p][h].Seq) THEN "write" ELSE "end"]
    /\ UNCHANGED <<engineVars, sending, mutex, blocking, calls, userChan, task, reader,
                   inbound, codecVars, codecKind, program, histVars>>

\* lines 159-171: the response carries the request's seq and the error text
handleRequest_write(p, h) ==
    LET r == hand[p][h]
        f == RespFrame(r.Seq, r.err, r.reply)
    IN  /\ h \in DOMAIN hand[p]
        /\ r.pc = "write"
        /\ \/ /\ WriteMaySucceed(p)
              /\ wire' = Deliver(p, f)
              /\ written' = [written EXCEPT ![p] = @ \cup {f}]
           \/ /\ WriteMayFail(p)
              /\ UNCHANGED <<wire, written>>
        /\ hand' = [hand EXCEPT ![p][h].pc = "end"]
        /\ UNCHANGED <<engineVars, sending, mutex, blocking, calls, userChan, task,
                       reader, inbound, undrained, codecKind, program, codecCloses, assigned,
                       removed, closeWins>>

\* the deferred pending.Cancel; an inline handler returns to the read loop
handleRequest_end(p, h) ==
    /\ h \in DOMAIN hand[p]
    /\ hand[p][h].pc = "end"
    /\ inbound' = [inbound EXCEPT ![p] = PendingCancel(p, hand[p][h].Seq)]
    /\ hand' = [hand EXCEPT ![p][h] = DoneHandler]
    /\ reader' = IF hand[p][h].inline
                 THEN [reader EXCEPT ![p] = NextFrame(p)]
                 ELSE reader
    /\ UNCHANGED <<engineVars, sending, mutex, blocking, calls, userChan, task,
                   codecVars, codecKind, program, histVars>>

(* ------------------------------------------------------------- readResponse *)
readResponse_Lock(p) ==
    /\ reader[p].pc = "readResponse"
    /\ mutex[p] = "free"
    /\ mutex' = [mutex EXCEPT ![p] = "reader"]
    /\ reader' = [reader EXCEPT ![p].pc = "readResponse_remove"]
    /\ UNCHANGED <<engineVars, sending, blocking, calls, userChan, task, hand, inbound,
                   codecVars, codecKind, program, histVars>>

\* a response with an unknown seq given to some pending call
readResponseLookup_fallback(p, s) ==
    IF s \in DOMAIN pending[p] THEN pending[p][s]
    ELSE IF DOMAIN pending[p] = {} THEN 0
    ELSE pending[p][CHOOSE x \in DOMAIN pending[p] : TRUE]
\* a response taken for the answer to the oldest pending call
readResponseLookup_oldest(p, s) ==
    IF DOMAIN pending[p] = {} THEN 0
    ELSE pending[p][CHOOSE x \in DOMAIN pending[p] : \A y \in DOMAIN pending[p] : x <= y]
\* line 212: the Call a response with seq s belongs to (0: none)
readResponseLookup(p, s) == Lookup(p, s)

\* the entry of an answered call left in the table
readResponseDelete_keep(p, s) == pending[p]
\* line 213: delete(c.pending, seq)
readResponseDelete(p, s) == Delete(p, s)

\* lines 212-214
readResponse_remove(p) ==
    LET s == reader[p].resp.Seq
    IN  /\ reader[p].pc = "readResponse_remove"
        /\ mutex[p] = "reader"
        /\ mutex' = [mutex EXCEPT ![p] = "free"]
        /\ reader' = [reader EXCEPT ![p].pc = "readResponse_switch",
                                    ![p].call = readResponseLookup(p, s)]
        /\ pending' = [pending EXCEPT ![p] = readResponseDelete(p, s)]
        /\ removed' = [removed EXCEPT ![p] = Removed(p, s)]
        /\ UNCHANGED <<seq, closing, shutdown, request, disconnect, sending, blocking,
                       calls, userChan, task, hand, inbound, codecVars, codecKind, program,
                       written, assigned, closeWins>>

\* lines 216-246: read the body into the reply slot or the discard sink, set
\* the error, strobe the call
readResponse_switch(p) ==
    LET i == reader[p].call
        resp == reader[p].resp
    IN  /\ reader[p].pc = "readResponse_switch"
        /\ undrained' = [undrained EXCEPT ![p] = FALSE]
        /\ IF i = 0
           THEN UNCHANGED <<calls, userChan>>
           ELSE IF resp.Error # ""
           THEN /\ calls' = [doneCalls(p, i, TRUE, ServerError(resp.Error)) EXCEPT
                                ![p][i].from = resp.Seq]
                /\ userChan' = doneUserChan(p, i)
           ELSE /\ calls' = [doneCalls(p, i, FALSE, Nil) EXCEPT
                                ![p][i].Reply = reader[p].body,
                                ![p][i].from = resp.Seq]
                /\ userChan' = doneUserChan(p, i)
        /\ reader' = [reader EXCEPT ![p] = NextFrame(p)]
        /\ UNCHANGED <<engineVars, sending, mutex, blocking, task, hand, inbound, wire,
                       codecKind, program, codecCloses, histVars>>

(* -------------------------------------------------- readLoop: shutdown sweep *)
readLoop_sweepSending(p) ==
    /\ reader[p].pc = "sweep_sending"
    /\ sending[p] = "free"
    /\ sending' = [sending EXCEPT ![p] = "reader"]
    /\ reader' = [reader EXCEPT ![p].pc = "sweep_mutex"]
    /\ UNCHANGED <<engineVars, mutex, blocking, calls, userChan, task, hand, inbound,
                   codecVars, codecKind, program, histVars>>

readLoop_sweepMutex(p) ==
    /\ reader[p].pc = "sweep_mutex"
    /\ mutex[p] = "free"
    /\ mutex' = [mutex EXCEPT ![p] = "reader"]
    /\ reader' = [reader EXCEPT ![p].pc = "sweep"]
    /\ UNCHANGED <<engineVars, sending, blocking, calls, userChan, task, hand, inbound,
                   codecVars, codecKind, program, histVars>>

\* every EOF reported as a shutdown
sweepError_alwaysShutdown(err, isClosing) ==
    IF err = EOF THEN ErrShutdown ELSE err
\* lines 117-123: the error the pending calls get
sweepError(err, isClosing) ==
    IF err = EOF THEN (IF isClosing THEN ErrShutdown ELSE ErrUnexpectedEOF) ELSE err

\* lines 115-123
readLoop_sweep(p) ==
    /\ reader[p].pc = "sweep"
    /\ mutex[p] = "reader"
    /\ shutdown' = [shutdown EXCEPT ![p] = TRUE]
    /\ reader' = [reader EXCEPT ![p].pc = "sweep_calls",
                                ![p].closing = closing[p],
                                ![p].err = sweepError(reader[p].err, closing[p]),
                                ![p].todo = DOMAIN pending[p]]
    /\ UNCHANGED <<seq, pending, closing, request, disconnect, sending, mutex, blocking,
                   calls, userChan, task, hand, inbound, codecVars, codecKind, program,
                   histVars>>

\* lines 124-127, one iteration of the range over c.pending
readLoop_sweepCall(p) ==
    /\ reader[p].pc = "sweep_calls"
    /\ \E s \in reader[p].todo :
          /\ calls' = doneCalls(p, pending[p][s], TRUE, reader[p].err)
          /\ userChan' = doneUserChan(p, pending[p][s])
          /\ reader' = [reader EXCEPT ![p].todo = @ \ {s}]
    /\ UNCHANGED <<engineVars, sending, mutex, blocking, task, hand, inbound,
                   codecVars, codecKind, program, histVars>>

\* lines 128-129
readLoop_sweepUnlock(p) ==
    /\ reader[p].pc = "sweep_calls"
    /\ reader[p].todo = {}
    /\ mutex' = [mutex EXCEPT ![p] = "free"]
    /\ sending' = [sending EXCEPT ![p] = "free"]
    /\ reader' = [reader EXCEPT ![p].pc = "disconnect"]
    /\ UNCHANGED <<engineVars, blocking, calls, userChan, task, hand, inbound,
                   codecVars, codecKind, program, histVars>>

\* line 133: close(c.disconnect)
readLoop_disconnect(p) ==
    /\ reader[p].pc = "disconnect"
    /\ disconnect' = [disconnect EXCEPT ![p] = @ + 1]
    /\ reader' = [reader EXCEPT ![p].pc = "codecClose"]
    /\ UNCHANGED <<seq, pending, closing, shutdown, request, sending, mutex, blocking,
                   calls, userChan, task, hand, inbound, codecVars, codecKind, program,
                   histVars>>

\* the read loop closing the codec whatever Close has done
loopClosesCodec_always(p) == TRUE
\* whether the read loop closes the codec on its way out (line 134)
loopClosesCodec(p) == ~reader[p].closing

\* lines 134-136
readLoop_codecClose(p) ==
    /\ reader[p].pc = "codecClose"
    /\ codecCloses' = [codecCloses EXCEPT ![p].byLoop =
                          IF loopClosesCodec(p) THEN @ + 1 ELSE @]
    /\ reader' = [reader EXCEPT ![p].pc = "exited"]
    /\ UNCHANGED <<engineVars, sending, mutex, blocking, calls, userChan, task, hand,
                   inbound, wire, undrained, codecKind, program, histVars>>

(* ------------------------------------------------------------------- Server *)
\* the peers that Server.ServeCodecWithState built and runs
Served(p) == p = "S"

\* rpc2_test.go 287: defer codec.Close(), executed once c.Run() has returned
ServeCodecWithState_Close(p) ==
    /\ Served(p)
    /\ reader[p].pc = "exited"
    /\ codecCloses[p].byServer = 0
    /\ codecCloses' = [codecCloses EXCEPT ![p].byServer = 1]
    /\ UNCHANGED <<engineVars, sending, mutex, blocking, calls, userChan, task,
                   reader, hand, inbound, wire, undrained, codecKind, program,
                   histVars>>

(* --------------------------------------------------------------------- Next *)
Next ==
    \/ \E t \in Tasks : \E p \in Peers : \E m \in CallMethods(p) : Go(t, p, m)
    \/ \E t \in Tasks : \E p \in Peers : \E m \in CallMethods(p) : Call(t, p, m)
    \/ \E t \in Tasks : send_Lock(t)
    \/ \E t \in Tasks : send_mutexLock(t)
    \/ \E t \in Tasks : send_register(t)
    \/ \E t \in Tasks : send_write(t)
    \/ \E t \in Tasks : send_failLock(t)
    \/ \E t \in Tasks : send_fail(t)
    \/ \E t \in Tasks : CtxCancel(t)
    \/ \E t \in Tasks : Call_done(t)
    \/ \E t \in Tasks : Call_ctxDone(t)
    \/ \E t \in Tasks : Call_cancel(t)
    \/ \E t \in Tasks : \E p \in Peers : \E m \in NotifyMethods(p) : Notify(t, p, m)
    \/ \E t \in Tasks : Notify_Lock(t)
    \/ \E t \in Tasks : Notify_check(t)
    \/ \E t \in Tasks : Notify_write(t)
    \/ \E t \in Tasks : \E p \in Peers : Close(t, p)
    \/ \E t \in Tasks : Close_Lock(t)
    \/ \E t \in Tasks : Close_check(t)
    \/ \E t \in Tasks : Close_codec(t)
    \/ \E p \in Peers : readLoop_ReadHeader(p)
    \/ \E p \in Peers : readRequest_unknown(p)
    \/ \E p \in Peers : readRequest_dispatch(p)
    \/ \E p \in Peers : \E h \in DOMAIN hand[p] : handleRequest_Start(p, h)
    \/ \E p \in Peers : \E h \in DOMAIN hand[p] : handleRequest_invoke(p, h)
    \/ \E p \in Peers : \E h \in DOMAIN hand[p] : handleRequest_write(p, h)
    \/ \E p \in Peers : \E h \in DOMAIN hand[p] : handleRequest_end(p, h)
    \/ \E p \in Peers : readResponse_Lock(p)
    \/ \E p \in Peers : readResponse_remove(p)
    \/ \E p \in Peers : readResponse_switch(p)
    \/ \E p \in Peers : readLoop_sweepSending(p)
    \/ \E p \in Peers : readLoop_sweepMutex(p)
    \/ \E p \in Peers : readLoop_sweep(p)
    \/ \E p \in Peers : readLoop_sweepCall(p)
    \/ \E p \in Peers : readLoop_sweepUnlock(p)
    \/ \E p \in Peers : readLoop_disconnect(p)
    \/ \E p \in Peers : readLoop_codecClose(p)
    \/ \E p \in Peers : ServeCodecWithState_Close(p)

Spec == Init /\ [][Next]_vars

\* the program "callback": the calls of P, the handlers and their nested calls
NextCallback ==
    \/ \E t \in Tasks : \E p \in Peers : \E m \in CallMethods(p) : Call(t, p, m)
    \/ \E t \in AllTasks : send_Lock(t)
    \/ \E t \in AllTasks : send_mutexLock(t)
    \/ \E t \in AllTasks : send_register(t)
    \/ \E t \in AllTasks : send_write(t)
    \/ \E t \in AllTasks : Call_done(t)
    \/ \E p \in Peers : readLoop_ReadHeader(p)
    \/ \E p \in Peers : readRequest_dispatch(p)
    \/ \E p \in Peers : \E h \in DOMAIN hand[p] : handleRequest_Start(p, h)
    \/ \E p \in Peers : \E h \in DOMAIN hand[p] : handleRequest_invoke(p, h)
    \/ \E p \in Peers : \E h \in DOMAIN hand[p] : add_Call(p, h)
    \/ \E p \in Peers : \E h \in DOMAIN hand[p] : add_return(p, h)
    \/ \E p \in Peers : \E h \in DOMAIN hand[p] : handleRequest_write(p, h)
    \/ \E p \in Peers : \E h \in DOMAIN hand[p] : handleRequest_end(p, h)
    \/ \E p \in Peers : readResponse_Lock(p)
    \/ \E p \in Peers : readResponse_remove(p)
    \/ \E p \in Peers : readResponse_switch(p)

SpecCallback == InitCallback /\ [][NextCallback]_vars

\* the program "go": the two Go calls of one task of P, and the Go, the
\* Notify or the Close of the other one
NextGo ==
    \/ \E t \in Tasks : \E p \in Peers : \E m \in CallMethods(p) : GoTwice(t, p, m)
    \/ \E t \in Tasks : GoTwice_second(t)
    \/ \E t \in Tasks : \E p \in Peers : \E m \in CallMethods(p) : Go(t, p, m)
    \/ \E t \in Tasks : send_Lock(t)
    \/ \E t \in Tasks : send_mutexLock(t)
    \/ \E t \in Tasks : send_register(t)
    \/ \E t \in Tasks : send_write(t)
    \/ \E t \in Tasks : send_failLock(t)
    \/ \E t \in Tasks : send_fail(t)
    \/ \E t \in Tasks : \E p \in Peers : \E m \in NotifyMethods(p) : Notify(t, p, m)
    \/ \E t \in Tasks : Notify_Lock(t)
    \/ \E t \in Tasks : Notify_check(t)
    \/ \E t \in Tasks : Notify_write(t)
    \/ \E t \in Tasks : Close(t, "P")
    \/ \E t \in Tasks : Close_Lock(t)
    \/ \E t \in Tasks : Close_check(t)
    \/ \E t \in Tasks : Close_codec(t)
    \/ \E p \in Peers : readLoop_ReadHeader(p)
    \/ \E p \in Peers : readRequest_dispatch(p)
    \/ \E p \in Peers : \E h \in DOMAIN hand[p] : handleRequest_Start(p, h)
    \/ \E p \in Peers : \E h \in DOMAIN hand[p] : handleRequest_invoke(p, h)
    \/ \E p \in Peers : \E h \in DOMAIN hand[p] : handleRequest_write(p, h)
    \/ \E p \in Peers : \E h \in DOMAIN hand[p] : handleRequest_end(p, h)
    \/ \E p \in Peers : readResponse_Lock(p)
    \/ \E p \in Peers : readResponse_remove(p)
    \/ \E p \in Peers : readResponse_switch(p)
    \/ \E p \in Peers : readLoop_sweepSending(p)
    \/ \E p \in Peers : readLoop_sweepMutex(p)
    \/ \E p \in Peers : readLoop_sweep(p)
    \/ \E p \in Peers : readLoop_sweepCall(p)
    \/ \E p \in Peers : readLoop_sweepUnlock(p)
    \/ \E p \in Peers : readLoop_disconnect(p)
    \/ \E p \in Peers : readLoop_codecClose(p)
    \/ \E p \in Peers : ServeCodecWithState_Close(p)

SpecGo == InitGo /\ [][NextGo]_vars

\* the program "cancel": the calls of S under contexts it may cancel, the
\* cancel requests that follow them, and the handlers of P
NextCancel ==
    \/ \E t \in Tasks : \E p \in Peers : \E m \in CallMethods(p) : Call(t, p, m)
    \/ \E t \in Tasks : send_Lock(t)
    \/ \E t \in Tasks : send_mutexLock(t)
    \/ \E t \in Tasks : send_register(t)
    \/ \E t \in Tasks : send_write(t)
    \/ \E t \in Tasks : CtxCancel(t)
    \/ \E t \in Tasks : Call_done(t)
    \/ \E t \in Tasks : Call_ctxDone(t)
    \/ \E t \in Tasks : Call_cancel(t)
    \/ \E p \in Peers : readLoop_ReadHeader(p)
    \/ \E p \in Peers : readRequest_dispatch(p)
    \/ \E p \in Peers : \E h \in DOMAIN hand[p] : handleRequest_Start(p, h)
    \/ \E p \in Peers : \E h \in DOMAIN hand[p] : handleRequest_invoke(p, h)
    \/ \E p \in Peers : \E h \in DOMAIN hand[p] : Cancel_invoke(p, h)
    \/ \E p \in Peers : \E h \in DOMAIN hand[p] : handleRequest_write(p, h)
    \/ \E p \in Peers : \E h \in DOMAIN hand[p] : handleRequest_end(p, h)
    \/ \E p \in Peers : readResponse_Lock(p)
    \/ \E p \in Peers : readResponse_remove(p)
    \/ \E p \in Peers : readResponse_switch(p)

SpecCancel == InitCancel /\ [][NextCancel]_vars

(* ================================================================== claims *)
PastSweep(p) == reader[p].pc \in {"sweep_calls", "disconnect", "codecClose", "exited"}
CallsOf(p) == DOMAIN calls[p]

\* C1: a response with seq s completes only the Call that send registered
\* under s; a success response is decoded into that Call's reply slot only,
\* the reply is the handler's answer to that Call's own arguments, and the
\* Call completes without error.
C1_Correlation ==
    \A p \in Peers : \A i \in CallsOf(p) :
        LET c == calls[p][i]
        IN  /\ c.from # 0 => c.from = c.seq /\ c.strobes = 1
            /\ c.Reply # 0 =>
                  /\ c.from = c.seq
                  /\ c.Error = Nil
                  /\ c.Reply = HandlerReply(c.Method, c.Args)
\* the call with seq 2 has its reply while the call with seq 1 is pending
C1_Witness ==
    \E i \in CallsOf("P") :
        /\ calls["P"][i].seq = 2
        /\ calls["P"][i].Reply = HandlerReply("add", calls["P"][i].Args)
        /\ calls["P"][i].Reply # 0
        /\ 1 \in DOMAIN pending["P"]

\* C2: a Call is strobed at most once, it is strobed as soon as a response,
\* a write failure, a rejection or the shutdown sweep has completed it, and
\* the strobe enters the done channel unless that channel is full.
C2_ExactlyOnce ==
    \A p \in Peers : \A i \in CallsOf(p) :
        LET c == calls[p][i]
        IN  /\ c.strobes <= 1
            /\ c.delivered <= c.strobes
            /\ (c.Error # Nil \/ c.from # 0) => c.strobes = 1
            /\ (c.strobes = 1 /\ c.delivered = 0) =>
                  c.Done = 0 /\ Len(userChan[p]) = DoneCap
            /\ Cardinality({k \in DOMAIN userChan[p] : userChan[p][k] = i}) <= 1
            /\ Cardinality({k \in DOMAIN c.chan : c.chan[k] = i}) <= 1
\* a call failed by the write error and one failed by the sweep, both delivered
C2_Witness ==
    \E i, j \in CallsOf("P") :
        /\ calls["P"][i].Error = ErrWrite /\ calls["P"][i].delivered = 1
        /\ calls["P"][j].Error = ErrShutdown /\ calls["P"][j].delivered = 1
        /\ PastSweep("P")

\* C3: send assigns 1, 2, 3, ... in order, each to another Call, and a seq
\* that left the table is never in it again.
C3_SeqMonotonic ==
    \A p \in Peers :
        /\ \A k \in DOMAIN assigned[p] : assigned[p][k].seq = k
        /\ \A k, l \in DOMAIN assigned[p] :
              k # l => assigned[p][k].call # assigned[p][l].call
        /\ seq[p] = Len(assigned[p]) + 1
        /\ DOMAIN pending[p] \cap removed[p] = {}
        /\ \A s \in DOMAIN pending[p] : s # 0 /\ calls[p][pending[p][s]].seq = s
\* the cancel request of a cancelled call got the next seq
C3_Witness ==
    \E k \in DOMAIN assigned["P"] :
        /\ calls["P"][assigned["P"][k].call].Method = CancelMethod
        /\ k = 2
        /\ 1 \in removed["P"]

\* C4: the disconnect channel is closed once, by the read loop on its way
\* out, after every Call left in the table has its error and its strobe; and
\* after the sweep no Call enters the table.
C4_Disconnect ==
    \A p \in Peers :
        /\ disconnect[p] <= 1
        /\ reader[p].pc = "exited" => disconnect[p] = 1
        /\ disconnect[p] = 1 =>
              shutdown[p] /\ reader[p].pc \in {"codecClose", "exited"}
        /\ shutdown[p] =>
              \A s \in DOMAIN pending[p] :
                  \/ s \in reader[p].todo /\ reader[p].pc = "sweep_calls"
                  \/ /\ calls[p][pending[p][s]].Error # Nil
                     /\ calls[p][pending[p][s]].strobes = 1
\* disconnect closed with two failed calls still in the table
C4_Witness ==
    /\ disconnect["P"] = 1
    /\ Cardinality(DOMAIN pending["P"]) = 2

\* C5: when the read loop ends on EOF the calls left in the table get
\* ErrShutdown if closing was set, io.ErrUnexpectedEOF otherwise; never nil.
C5_EOFError ==
    \A p \in Peers :
        (PastSweep(p) /\ reader[p].eof) =>
            \A s \in DOMAIN pending[p] \ reader[p].todo :
                calls[p][pending[p][s]].Error =
                    IF closing[p] THEN ErrShutdown ELSE ErrUnexpectedEOF
\* the remote hung up: an outstanding call failed with the unexpected EOF
C5_Witness ==
    \E s \in DOMAIN pending["P"] :
        /\ PastSweep("P") /\ reader["P"].eof /\ ~closing["P"]
        /\ calls["P"][pending["P"][s]].Error = ErrUnexpectedEOF

\* C6: when send or Notify test the flags of a closing or shut-down peer,
\* the operation ends there with ErrShutdown: no frame is written, the table
\* and the sequence counter stay as they are; the flags are never reset, and
\* a Call whose context is not cancelled returns its Call's error.
C6_RejectAfterShutdown ==
    [][\A t \in Tasks :
         LET p == task[t].peer
             i == task[t].cur
         IN  /\ closing[p] => closing'[p]
             /\ shutdown[p] => shutdown'[p]
             /\ ((closing[p] \/ shutdown[p]) /\ task'[t] # task[t]
                   /\ task[t].pc \in {"send_register", "notify_check"}) =>
                   /\ seq'[p] = seq[p]
                   /\ pending'[p] = pending[p]
                   /\ wire' = wire
                   /\ written' = written
                   /\ request' = request
                   /\ task[t].pc = "notify_check" =>
                         task'[t].pc = "returned" /\ task'[t].ret = ErrShutdown
                   /\ task[t].pc = "send_register" =>
                         /\ calls'[p][i].Error = ErrShutdown
                         /\ calls'[p][i].strobes = calls[p][i].strobes + 1
                         /\ calls'[p][i].seq = 0
                         /\ task'[t].pc \in {"returned", "select"}
             /\ (task[t].pc = "select" /\ ~task[t].ctx /\ task'[t].pc = "returned") =>
                   task'[t].ret = calls[p][task[t].call].Error
      ]_vars
\* after a Close set closing, a Notify returned ErrShutdown: no frame was
\* written and no seq consumed
C6_Witness ==
    /\ closing["P"] /\ ~shutdown["P"]
    /\ written["P"] = {} /\ seq["P"] = FirstSeq
    /\ \E t \in Tasks :
          task[t].op = "Notify" /\ task[t].pc = "returned" /\ task[t].ret = ErrShutdown

\* C7: at most one Close of a peer sets closing and closes the codec; every
\* other Close returns ErrShutdown, and a Close after the shutdown sweep
\* leaves closing as the sweep read it.
C7_CloseIdempotent ==
    \A p \in Peers :
        LET closers == {t \in Tasks : task[t].op = "Close" /\ task[t].peer = p}
            winners == {t \in closers :
                           \/ task[t].pc = "close_codec"
                           \/ task[t].pc = "returned" /\ task[t].ret = Nil}
        IN  /\ closeWins[p] <= 1
            /\ Cardinality(winners) = closeWins[p]
            /\ codecCloses[p].byClose <= closeWins[p]
            /\ \A t \in closers :
                  task[t].pc = "returned" => task[t].ret \in {Nil, ErrShutdown}
            /\ closing[p] <=> closeWins[p] = 1
            /\ PastSweep(p) => closing[p] = reader[p].closing
\* two Close calls of one peer: one closed the codec, the other was refused
C7_Witness ==
    \E t, u \in Tasks :
        /\ task[t].op = "Close" /\ task[u].op = "Close"
        /\ task[t].peer = "P" /\ task[u].peer = "P"
        /\ task[t].pc = "returned" /\ task[t].ret = Nil
        /\ task[u].pc = "returned" /\ task[u].ret = ErrShutdown
        /\ codecCloses["P"].byClose = 1

\* C8: once Call has returned the cancellation error, the reply slot of its
\* Call is not written any more.
C8_CancelledReplyUntouched ==
    [][\A p \in Peers : \A i \in DOMAIN calls[p] :
         calls[p][i].ret = Canceled => calls'[p][i].Reply = calls[p][i].Reply]_vars

\* C9: a notification leaves the sender's table alone and no peer ever
\* writes a response frame with seq 0.
C9_NoResponseToNotification ==
    \A p \in Peers :
        /\ 0 \notin DOMAIN pending[p]
        /\ \A f \in written[p] : f.kind = "resp" => f.Seq # 0

\* C10 (the caller's side and the dispatch): a call to a method without a
\* handler is completed by the response with its own seq and the error text
\* of the wire contract, and no handler runs for such a method.
UnknownMethodAnswered ==
    \A p \in Peers :
        /\ \A i \in CallsOf(p) :
              (calls[p][i].Method = "foo" /\ calls[p][i].from # 0) =>
                  /\ calls[p][i].Error = "birpc: can't find method foo"
                  /\ calls[p][i].from = calls[p][i].seq
        /\ \A h \in DOMAIN hand[p] :
              hand[p][h].pc # "done" => hand[p][h].Method \in Handlers(p)
\* C10: a call to a method without a handler is answered as above, and the
\* read loop of the remote goes on to serve the frames that follow: with no
\* notification sent, so that every unanswerable request is a call, no read
\* loop ends on the request body it left on the stream.
C10_UnknownMethod ==
    /\ UnknownMethodAnswered
    /\ (\A t \in Tasks : task[t].op # "Notify") =>
          \A p \in Peers : reader[p].err # ErrDecode

\* the handlers of "add" that have issued their nested call
Nested(p) == {h \in DOMAIN hand[p] : hand[p][h].call # 0}
\* a user task is inside an operation
Outstanding == \E t \in Tasks : task[t].pc \notin {"idle", "returned"}

\* the parts of C11 that are about values: the peer a handler finds in its
\* context is the engine that dispatched the request, the nested call is
\* issued on that engine and has returned the product, without error,
\* before the handler's response is written, and an outer call that has
\* returned has returned no error and the handler's reply.
CallbackValues ==
    /\ \A p \in Peers : \A h \in DOMAIN hand[p] :
          hand[p][h].pc \in {"invoke", "callback", "write", "end"} =>
              ClientValueFromContext(hand[p][h]) = p
    /\ \A p \in Peers : \A h \in Nested(p) :
          LET t == HandlerTask(p, h)
              c == calls[p][hand[p][h].call]
          IN  /\ task[t].peer = p
              /\ hand[p][h].pc \in {"write", "end"} =>
                    /\ task[t].pc = "returned"
                    /\ c.ret = Nil
                    /\ c.Reply = HandlerReply("mult", c.Args)
    /\ \A i \in CallsOf("P") :
          LET c == calls["P"][i]
          IN  (c.Method = "add" /\ c.ret # NotReturned) =>
                  c.ret = Nil /\ c.Reply = HandlerReply("add", c.Args)

\* C11 as stated: in every mode of the two peers the values are as above and
\* the outer call is never stuck: while a call of P is outstanding some task
\* of the two peers can take a step.
C11_RecursiveCallback ==
    /\ CallbackValues
    /\ Outstanding => ENABLED NextCallback

\* C11 amended: the same, for a handler's peer that is not in blocking mode.
C11_RecursiveCallbackDefaultMode ==
    /\ CallbackValues
    /\ ~blocking["S"] => (Outstanding => ENABLED NextCallback)
\* the test's last configuration: P in blocking mode, S not; two outer calls
\* have returned the sums, their handlers having got the products from P
C11_Witness ==
    /\ program = "callback" /\ blocking["P"] /\ ~blocking["S"]
    /\ \A t \in Tasks : task[t].pc = "returned" /\ task[t].ret = Nil
    /\ \A i \in CallsOf("P") :
          calls["P"][i].Method = "add" =>
              calls["P"][i].Reply = HandlerReply("add", calls["P"][i].Args)
    /\ \E i \in CallsOf("S") :
          calls["S"][i].Reply = HandlerReply("mult", calls["S"][i].Args)
             /\ calls["S"][i].Reply # 0

\* C12: an incoming _goRPC_.Cancel request is never answered with the
\* unknown-method error: the peer that reads it has a handler of that name.
C12_CancelRegistered ==
    \A p \in Peers :
        /\ (reader[p].pc = "readRequest" /\ reader[p].req.Method = CancelMethod) =>
              CancelMethod \in Handlers(p)
        /\ \A f \in written[p] :
              f.kind = "resp" => f.Error # CantFind(CancelMethod)

\* the cancel requests a peer has processed: the handlers of _goRPC_.Cancel
\* that have returned
CancelProcessed(p) ==
    {h \in DOMAIN hand[p] :
        hand[p][h].Method = CancelMethod /\ hand[p][h].pc \in {"write", "end"}}

\* C13: once the remote has processed _goRPC_.Cancel{s}, the handler of the
\* request s, if it has not returned yet, has its token registered and its
\* context cancelled, however the handler tasks are scheduled.
C13_CancelRoundTrip ==
    \A p \in Peers : \A h \in CancelProcessed(p) : \A k \in DOMAIN hand[p] :
        (hand[p][k].Seq = hand[p][h].argv /\ hand[p][k].pc \in {"Start", "invoke"}) =>
            hand[p][k].pc # "Start" /\ hand[p][k].ctx

\* the handleRequest invocations of p that have not returned
Active(p) == {h \in DOMAIN hand[p] : hand[p][h].pc # "done"}
\* the positions in p's incoming stream of the answers to calls
Answers(p) == {k \in DOMAIN wire[p] : wire[p][k].kind = "resp" /\ wire[p][k].Seq # 0}

DefaultModeConcurrent ==
    /\ ~blocking["S"]
    /\ Cardinality({h \in Active("S") : hand["S"][h].pc = "invoke"}) = 2
    /\ reader["S"].pc = "ReadHeader"

\* C15: every codec write is performed by a task that holds the send lock of
\* its peer: the request writes of send and Notify, the response write of a
\* handler's completion, and the unknown-method reply of the read loop.
C15_WritesUnderSendLock ==
    [][\A p \in Peers :
         /\ \A t \in AllTasks :
               (/\ task[t].peer = p
                /\ task[t].pc \in {"send_write", "notify_write"}
                /\ task'[t] # task[t]) => sending[p] = t
         /\ \A h \in DOMAIN hand[p] :
               (hand[p][h].pc = "write" /\ hand'[p][h].pc # "write") =>
                   sending[p] = (IF hand[p][h].inline THEN "reader"
                                 ELSE HandlerTask(p, h))
         /\ (/\ reader[p].pc = "readRequest"
             /\ reader[p].req.Method \notin Handlers(p)
             /\ reader'[p] # reader[p]) => sending[p] = "reader"
      ]_vars

\* the seqs send has registered Call i of p under (none or one)
SeqsOf(p, i) == {assigned[p][k].seq : k \in {l \in DOMAIN assigned[p] : assigned[p][l].call = i}}
\* the remote cancels issued for Call i of p
CancelsOf(cs, p, i) ==
    {j \in DOMAIN cs[p] : cs[p][j].Method = CancelMethod /\ cs[p][j].Done = i /\ j # i}

\* C16: the step in which Call takes the cancellation path removes the
\* call's seq from the table, and issues _goRPC_.Cancel with that seq exactly
\* when send had registered the call and its entry was still there; a call
\* that has returned the cancellation error has no seq in the table, and a
\* remote cancel carries the seq of its call and exists only for a call that
\* no response has completed.
C16_CancelUnregisters ==
    [][/\ \A t \in AllTasks :
            (task[t].pc = "cancel_remove" /\ task'[t] # task[t]) =>
                LET p == task[t].peer
                    i == task[t].call
                    inTable == \E s \in SeqsOf(p, i) :
                                  s \in DOMAIN pending[p] /\ pending[p][s] = i
                IN  /\ \A s \in SeqsOf(p, i) : s \notin DOMAIN pending'[p]
                    /\ DOMAIN pending[p] \ DOMAIN pending'[p] \subseteq SeqsOf(p, i)
                    /\ (CancelsOf(calls', p, i) # {}) <=> inTable
                    /\ ~inTable => task'[t].pc = "returned" /\ task'[t].ret = Canceled
       /\ \A p \in Peers : \A i \in DOMAIN calls'[p] :
            LET c == calls'[p][i]
            IN  /\ c.ret = Canceled => \A s \in SeqsOf(p, i)' : s \notin DOMAIN pending'[p]
                /\ Cardinality(CancelsOf(calls', p, i)) <= 1
                /\ \A j \in CancelsOf(calls', p, i) :
                      /\ SeqsOf(p, i)' = {calls'[p][j].Args}
                      /\ c.from = 0
      ]_vars
\* two cancelled calls have returned: for the first the remote cancel was
\* written, for the second, whose response had arrived, none was issued
C16_Witness ==
    \E i, k \in CallsOf("P") :
        /\ calls["P"][i].ret = Canceled /\ calls["P"][k].ret = Canceled
        /\ \E j \in CancelsOf(calls, "P", i) :
              \E f \in written["P"] :
                  f.Method = CancelMethod /\ f.body = calls["P"][i].seq
        /\ calls["P"][k].from # 0 /\ CancelsOf(calls, "P", k) = {}

\* C17: a response whose seq is not in the table is matched with no Call and
\* leaves the table as it is; its body is read and dropped, no Call's error,
\* reply or channel changes, and the read loop goes on to the next frame.
C17_UnmatchedResponse ==
    [][\A p \in Peers :
         /\ (/\ reader[p].pc = "readResponse_remove"
             /\ reader'[p] # reader[p]
             /\ reader[p].resp.Seq \notin DOMAIN pending[p]) =>
                /\ reader'[p].call = 0
                /\ pending' = pending /\ removed' = removed
                /\ calls' = calls /\ userChan' = userChan
         /\ (/\ reader[p].pc = "readResponse_switch"
             /\ reader'[p] # reader[p]
             /\ reader[p].call = 0) =>
                /\ calls' = calls /\ userChan' = userChan
                /\ pending' = pending
                /\ ~undrained'[p]
                /\ reader'[p].pc = "ReadHeader" /\ reader'[p].err = Nil
         /\ (reader[p].pc = "readResponse_switch" /\ reader[p].call # 0) =>
                /\ reader[p].resp.Seq \in removed[p]
                /\ calls[p][reader[p].call].seq = reader[p].resp.Seq
      ]_vars
\* the answer to a call whose caller had cancelled, and had unregistered it,
\* has been read and dropped: the call has neither reply nor completion, and
\* the read loop is back at the top
C17_Witness ==
    \E i \in CallsOf("P") :
        /\ calls["P"][i].ret = Canceled /\ calls["P"][i].from = 0
        /\ calls["P"][i].Reply = 0 /\ calls["P"][i].strobes = 0
        /\ \E f \in written["S"] :
              /\ f.kind = "resp" /\ f.Seq = calls["P"][i].seq /\ f.Error = ""
              /\ \A k \in DOMAIN wire["P"] : wire["P"][k] # f
        /\ reader["P"].pc = "ReadHeader" /\ ~undrained["P"] /\ ~CodecClosed("P")
        /\ SeqsOf("P", i) # {}

\* C18: a handler that has returned for a request with a seq goes on to write
\* the response, once: the frame carries the request's seq, the handler's
\* error text and reply, and no response with that seq was written before;
\* the write is lost only on a closed connection. After it the deferred
\* cancel removes the token of the seq, and tokens belong to running
\* handlers only.
C18_OneResponse ==
    [][\A p \in Peers :
         /\ \A h \in DOMAIN hand[p] :
               LET r == hand[p][h]
                   r2 == hand'[p][h]
               IN  /\ (/\ r.pc \in {"invoke", "callback"}
                       /\ r2.pc \notin {"invoke", "callback"}
                       /\ r.Seq # 0) =>
                         /\ r.Method \in Handlers(p)
                         /\ r2.pc = "write" /\ r2.Seq = r.Seq
                   /\ (r.pc = "write" /\ r2.pc # "write") =>
                         /\ r.Seq # 0 /\ r2.pc = "end"
                         /\ \A g \in written[p] : g.kind = "resp" => g.Seq # r.Seq
                         /\ \/ written'[p] = written[p] \cup {RespFrame(r.Seq, r.err, r.reply)}
                            \/ WriteMayFail(p) /\ written'[p] = written[p]
                   /\ (r.pc = "end" /\ r2.pc # "end") =>
                         r2.pc = "done" /\ r.Seq \notin inbound'[p]
         /\ inbound'[p] \subseteq
               {hand'[p][h].Seq : h \in {k \in DOMAIN hand'[p] :
                     hand'[p][k].pc \in {"invoke", "callback", "write", "end"}}}
      ]_vars
\* a handler whose context was cancelled has returned the context's error:
\* its response, with the request's seq and that text, is written and its
\* token is gone; another request was answered without error
C18_Witness ==
    /\ \E f \in written["P"] :
          f.kind = "resp" /\ f.Seq = 1 /\ f.Error = Canceled /\ 1 \notin inbound["P"]
    /\ \E g \in written["P"] :
          g.kind = "resp" /\ g.Seq # 0 /\ g.Error = "" /\ g.body # 0

\* C19: the step in which send handles a failed write removes the entry of
\* its own call and completes that call with the write error; every other
\* entry and every other Call's error, reply, seq and strobe count stay, and
\* so do the flags, the sequence counter and the read loop.
C19_WriteFailure ==
    [][\A t \in AllTasks :
         (task[t].pc = "send_fail" /\ task'[t] # task[t]) =>
             LET p == task[t].peer
                 s == task[t].seq
                 i == task[t].cur
             IN  /\ s \in DOMAIN pending[p] /\ pending[p][s] = i
                 /\ DOMAIN pending'[p] = DOMAIN pending[p] \ {s}
                 /\ \A x \in DOMAIN pending'[p] : pending'[p][x] = pending[p][x]
                 /\ calls'[p][i].Error = ErrWrite
                 /\ calls'[p][i].strobes = calls[p][i].strobes + 1
                 /\ \A j \in DOMAIN calls[p] \ {i} :
                       /\ calls'[p][j].Error = calls[p][j].Error
                       /\ calls'[p][j].Reply = calls[p][j].Reply
                       /\ calls'[p][j].seq = calls[p][j].seq
                       /\ calls'[p][j].strobes = calls[p][j].strobes
                 /\ shutdown' = shutdown /\ closing' = closing /\ seq' = seq
                 /\ reader' = reader /\ wire' = wire /\ disconnect' = disconnect
                 /\ sending'[p] = "free" /\ mutex'[p] = "free"
      ]_vars
\* the second call failed on its write while the first is still pending,
\* untouched, on a peer that is neither closing nor shut down
C19_Witness ==
    \E i, j \in CallsOf("P") :
        /\ calls["P"][j].Error = ErrWrite /\ calls["P"][j].seq = 2
        /\ calls["P"][j].strobes = 1
        /\ DOMAIN pending["P"] = {1} /\ pending["P"][1] = i
        /\ calls["P"][i].Error = Nil /\ calls["P"][i].strobes = 0
        /\ ~shutdown["P"] /\ ~closing["P"] /\ seq["P"] = 3
        /\ reader["P"].pc = "ReadHeader"

\* the positions at which a user or handler task holds, or may hold, a lock
MutexPcs == {"send_register", "send_fail", "cancel_remove", "close_check"}
SendingPcs == {"send_mutex", "send_register", "send_write", "send_failLock",
               "send_fail", "notify_check", "notify_write"}
\* the step with which the holder of p's table lock releases it
MutexRelease(p) ==
    IF mutex[p] = "reader"
    THEN readResponse_remove(p) \/ readLoop_sweep(p) \/ readLoop_sweepCall(p)
            \/ readLoop_sweepUnlock(p)
    ELSE send_register(mutex[p]) \/ send_fail(mutex[p]) \/ Call_cancel(mutex[p])
            \/ Close_check(mutex[p])

\* C20: a task takes the send lock only while it does not hold the table
\* lock; the holder of the table lock is at a step that neither calls the
\* codec, nor runs a handler, nor waits for anything, and can always take
\* it; the holder of the send lock is inside send, Notify or the shutdown
\* sweep, never waiting on the user's channel, context or handler.
C20_LockOrder ==
    [][\A p \in Peers :
         /\ (sending'[p] # sending[p] /\ sending'[p] # "free") =>
               (sending[p] = "free" /\ mutex[p] # sending'[p])
         /\ (mutex'[p] # mutex[p] /\ mutex'[p] # "free") => mutex[p] = "free"
         /\ mutex'[p] \in AllTasks =>
               task'[mutex'[p]].peer = p /\ task'[mutex'[p]].pc \in MutexPcs
         /\ mutex'[p] = "reader" =>
               reader'[p].pc \in {"readResponse_remove", "sweep", "sweep_calls"}
         /\ mutex'[p] \in AllTasks \cup {"reader", "free"}
         /\ sending'[p] \in AllTasks =>
               task'[sending'[p]].peer = p /\ task'[sending'[p]].pc \in SendingPcs
         /\ sending'[p] = "reader" =>
               reader'[p].pc \in {"sweep_mutex", "sweep", "sweep_calls"}
         /\ sending'[p] \in AllTasks \cup {"reader", "free"}
         /\ mutex[p] # "free" => ENABLED MutexRelease(p)
      ]_vars
\* the shutdown sweep holds both locks, taken in the order of send, while a
\* sender waits for the send lock and a Close waits for the table lock
C20_Witness ==
    /\ sending["P"] = "reader" /\ mutex["P"] = "reader"
    /\ reader["P"].pc = "sweep_calls" /\ reader["P"].todo # {}
    /\ \E t \in Tasks : task[t].peer = "P" /\ task[t].pc = "send_Lock"

\* the request frames with a seq among a set of frames
CallFrames(fs) == {f \in fs : f.kind = "req" /\ f.Seq # 0}

\* C21: a request frame with a seq that is written has a seq above that of
\* every request frame written before, and carries the seq, the method and
\* the argument of the Call that send registered under that seq and that is
\* still in the table; a send that writes, writes the frame of its own call;
\* and when the second of two Go calls of one task is written, the first one
\* was registered under a smaller seq and its frame was written before,
\* unless its write failed.
C21_WireOrder ==
    [][\A p \in Peers :
         /\ \A f \in CallFrames(written'[p] \ written[p]) :
               /\ \A g \in CallFrames(written[p]) : g.Seq < f.Seq
               /\ \E k \in DOMAIN assigned[p] :
                     LET i == assigned[p][k].call
                     IN  /\ assigned[p][k].seq = f.Seq
                         /\ calls[p][i].Method = f.Method
                         /\ calls[p][i].Args = f.body
                         /\ calls[p][i].seq = f.Seq
                         /\ Lookup(p, f.Seq) = i
         /\ \A t \in AllTasks :
               (/\ task[t].peer = p /\ task[t].pc = "send_write"
                /\ task'[t] # task[t] /\ task'[t].pc # "send_failLock") =>
                  LET i == task[t].cur
                      j == task[t].call
                      f == ReqFrame(task[t].seq, calls[p][i].Method, calls[p][i].Args)
                  IN  /\ task[t].seq = calls[p][i].seq
                      /\ f \notin written[p]
                      /\ written'[p] = written[p] \cup {f}
                      /\ (task[t].op = "GoTwice" /\ i # j) =>
                            /\ calls[p][j].seq # 0
                            /\ calls[p][j].seq < calls[p][i].seq
                            /\ \/ ReqFrame(calls[p][j].seq, calls[p][j].Method,
                                            calls[p][j].Args) \in written[p]
                               \/ calls[p][j].Error = ErrWrite
      ]_vars
\* a task has issued two Go calls, registered under 1 and 3, around the Go of
\* another task that was allocated last and registered under 2; the three
\* requests were written and the header buffer holds the last of them
C21_Witness ==
    /\ \E t \in Tasks : task[t].op = "GoTwice" /\ task[t].pc = "returned"
    /\ \E t \in Tasks : task[t].op = "Go" /\ task[t].pc = "returned"
    /\ Len(calls["P"]) = 3
    /\ calls["P"][1].seq = 1 /\ calls["P"][2].seq = 3 /\ calls["P"][3].seq = 2
    /\ \A i \in 1..3 :
          ReqFrame(calls["P"][i].seq, "add", calls["P"][i].Args) \in written["P"]
    /\ request["P"] = [Seq |-> 3, Method |-> "add"]

\* the fields of the engine that the next step of task t reads (w FALSE) or
\* writes (w TRUE): send 299 and 315, 324-325; Call 385-386; Close 252 and
\* 256; Notify 339
TaskAccess(t) ==
    LET p == task[t].peer
        R(v) == [v |-> v, w |-> FALSE]
        W(v) == [v |-> v, w |-> TRUE]
    IN  IF task[t].pc = "send_register"
        THEN {R("shutdown"), R("closing")} \cup
             (IF sendRejects(p) \/ calls[p][task[t].cur].seq # 0 THEN {}
              ELSE {W("pending")})
        ELSE IF task[t].pc = "send_fail" THEN {W("pending")}
        ELSE IF task[t].pc = "cancel_remove" THEN {W("pending")}
        ELSE IF task[t].pc = "close_check"
        THEN {R("shutdown"), R("closing")} \cup
             (IF CloseRejects(p) THEN {} ELSE {W("closing")})
        ELSE IF task[t].pc = "notify_check" THEN {R("shutdown"), R("closing")}
        ELSE {}
\* the same for the next step of the read loop: readResponse 212-213, the
\* sweep 115-116 and 124
ReaderAccess(p) ==
    IF reader[p].pc = "readResponse_remove" THEN {[v |-> "pending", w |-> TRUE]}
    ELSE IF reader[p].pc = "sweep"
    THEN {[v |-> "shutdown", w |-> TRUE], [v |-> "closing", w |-> FALSE],
          [v |-> "pending", w |-> FALSE]}
    ELSE IF reader[p].pc = "sweep_calls" THEN {[v |-> "pending", w |-> FALSE]}
    ELSE {}
Actors == AllTasks \cup {"reader"}
Access(a, p) ==
    IF a = "reader" THEN ReaderAccess(p)
    ELSE IF task[a].peer = p THEN TaskAccess(a)
    ELSE {}
LocksHeld(a, p) ==
    (IF sending[p] = a THEN {"sending"} ELSE {}) \cup
    (IF mutex[p] = a THEN {"mutex"} ELSE {})
\* two tasks are about to access the same field, one of them writing it
Conflict(a, b, p) ==
    \E x \in Access(a, p) : \E y \in Access(b, p) : x.v = y.v /\ (x.w \/ y.w)

\* C22: whenever two tasks of a peer are about to access the outbound table
\* or the same one of the flags shutdown and closing, one of them writing,
\* they hold a lock in common, so that one of the accesses waits for the
\* other (no data race).  This is the conclusion the claim draws from every
\* access being made under the table lock.
C22_NoDataRace ==
    \A p \in Peers : \A a, b \in Actors :
        (a # b /\ Conflict(a, b, p)) => LocksHeld(a, p) \cap LocksHeld(b, p) # {}

\* the Close calls of peer p that are past setting closing and have not yet
\* closed the codec
ClosePending(p) ==
    {t \in Tasks : task[t].peer = p /\ task[t].pc = "close_codec"}

\* C23: Close and the read loop together never call codec.Close more than
\* once; Close calls it only after it has set closing, and the sweep, if it
\* has run, has read closing as set; the read loop calls it only when the
\* sweep has read closing as unset, and then no Close of the peer sets
\* closing or closes the codec, each returns ErrShutdown; once the read loop
\* has ended and no Close is on its way to the codec, the call was made.
C23_CodecClosedOnce ==
    \A p \in Peers :
        LET byClose == codecCloses[p].byClose
            byLoop == codecCloses[p].byLoop
        IN  /\ byClose + byLoop <= 1
            /\ byClose = 1 =>
                  /\ closing[p]
                  /\ PastSweep(p) => reader[p].closing
                  /\ reader[p].pc = "exited"  => byLoop = 0
            /\ byLoop = 1 =>
                  /\ reader[p].pc = "exited" /\ ~reader[p].closing
                  /\ ~closing[p] /\ shutdown[p]
                  /\ \A t \in Tasks :
                        (task[t].op = "Close" /\ task[t].peer = p) =>
                            /\ task[t].pc # "close_codec"
                            /\ task[t].pc = "returned" => task[t].ret = ErrShutdown
            /\ (reader[p].pc = "exited" /\ ClosePending(p) = {}) =>
                  byClose + byLoop = 1
            /\ (reader[p].pc = "exited" /\ ClosePending(p) # {}) =>
                  byClose + byLoop = 0 /\ reader[p].closing
\* the read loop of P ended on the remote end's close and closed the codec;
\* a Close of P that came later was refused and closed nothing
C23_Witness ==
    /\ reader["P"].pc = "exited"
    /\ codecCloses["P"].byLoop = 1 /\ codecCloses["P"].byClose = 0
    /\ \E t \in Tasks :
          /\ task[t].op = "Close" /\ task[t].peer = "P"
          /\ task[t].pc = "returned" /\ task[t].ret = ErrShutdown
\* Close has set closing and the read loop, ended by the remote end, has left
\* the codec to it: the codec is not closed yet
CloseClosesCodec ==
    /\ reader["P"].pc = "exited" /\ reader["P"].closing
    /\ ClosePending("P") # {}
    /\ codecCloses["P"].byClose = 0 /\ codecCloses["P"].byLoop = 0

====
